---- MODULE Spec2Model ----
(***************************************************************************)
(* Smart-classroom backend (src/app.py): the Flask request handlers and    *)
(* the MongoDB collections they read and write.  Every handler runs in its *)
(* own thread against the shared database, so a handler is a sequence of   *)
(* steps, one per database call; a single-document MongoDB call is atomic. *)
(* Requests are kept, in the order they started, together with their       *)
(* responses.                                                              *)
(***************************************************************************)
EXTENDS Integers, Sequences, FiniteSets, TLC

VARIABLES users, attendance, quizzes, timetable, tokens,
          signups, logins, marks, quizreqs, saves

vars == <<users, attendance, quizzes, timetable, tokens,
          signups, logins, marks, quizreqs, saves>>

(* ------------------------------ bounds --------------------------------- *)
MaxSignup == 2
MaxLogin == 1
MaxMark == 3
MaxClass == 3
MaxQuiz == 2
MaxOptions == 5
MaxAnswer == 5
MaxSave == 3

(* ------------------------- values and helpers -------------------------- *)
\* A string field that is absent from the JSON body, or empty: data.get(..)
\* is None or "", and `not value` is true for both.
Missing == ""

\* No response yet.
NoStatus == 0

\* An optional JSON value: <<>> when the key is absent, <<v>> when present.
NoValue == <<>>

Range(s) == {s[i] : i \in DOMAIN s}

\* A request that has not returned yet.
Active(r) == r.pc # "done"

\* collection.find_one(filter): the first document, in insertion order,
\* that matches; <<>> (None) when there is none.  `hits` are the positions
\* of the documents the filter matches.
FindOne(coll, hits) ==
    IF hits = {} THEN <<>>
    ELSE <<coll[CHOOSE i \in hits : \A j \in hits : i <= j]>>

\* bcrypt.hashpw(password, salt): the salt is kept in the hash, and the
\* digest is a function of salt and password.
HashPw(password, salt) == [salt |-> salt, digest |-> <<salt, password>>]

\* bcrypt.checkpw(password, hashed): re-hash with the stored salt, compare.
CheckPw(password, hashed) == HashPw(password, hashed.salt) = hashed

(* ------------------------------ signup --------------------------------- *)
Usernames == {"alice", "bob"}
Passwords == {"pw1", "pw2"}
Types == {"Student", "Teacher", "Admin"}

\* The request bodies tried: every complete body, and one body per
\* required field with that field absent.
SignupBodies ==
    [username : Usernames, password : Passwords, name : {"Name"}, type : Types]
    \cup {[username |-> Missing, password |-> "pw1", name |-> "Name", type |-> "Student"],
          [username |-> "alice", password |-> Missing, name |-> "Name", type |-> "Student"],
          [username |-> "alice", password |-> "pw1", name |-> Missing, type |-> "Student"],
          [username |-> "alice", password |-> "pw1", name |-> "Name", type |-> Missing]}

SignupValid(data) ==
    ~(data.username = Missing \/ data.password = Missing
      \/ data.name = Missing \/ data.type = Missing)

\* The document signup inserts; a Student gets the optional details, each
\* defaulting to "" (the bodies tried carry none).
UserData(data, hashed) ==
    [username |-> data.username, password |-> hashed, name |-> data.name,
     type |-> data.type,
     details |-> IF data.type = "Student" THEN <<"">> ELSE NoValue]

\* Lines 22-33: the request arrives and is validated.  `stored` records
\* whether the username was already in the collection on arrival.
SignupStart ==
    /\ Len(signups) < MaxSignup
    /\ \E data \in SignupBodies :
         signups' = Append(signups,
            [data |-> data,
             pc |-> IF SignupValid(data) THEN "find" ELSE "done",
             status |-> IF SignupValid(data) THEN NoStatus ELSE 400,
             stored |-> \E k \in DOMAIN users : users[k].username = data.username])
    /\ UNCHANGED <<users, attendance, quizzes, timetable, tokens,
                   logins, marks, quizreqs, saves>>

\* Lines 36-38: the username lookup.
SignupFind(i) ==
    /\ signups[i].pc = "find"
    /\ LET existing_user ==
             FindOne(users, {k \in DOMAIN users :
                               users[k].username = signups[i].data.username})
       IN  signups' = [signups EXCEPT
               ![i].pc = IF existing_user # <<>> THEN "done" ELSE "insert",
               ![i].status = IF existing_user # <<>> THEN 400 ELSE NoStatus]
    /\ UNCHANGED <<users, attendance, quizzes, timetable, tokens,
                   logins, marks, quizreqs, saves>>

\* Lines 41-64: hash with a fresh salt (the request's own number), insert.
SignupInsert(i) ==
    /\ signups[i].pc = "insert"
    /\ users' = Append(users,
                  UserData(signups[i].data, HashPw(signups[i].data.password, i)))
    /\ signups' = [signups EXCEPT ![i].pc = "done", ![i].status = 201]
    /\ UNCHANGED <<attendance, quizzes, timetable, tokens,
                   logins, marks, quizreqs, saves>>

(* ------------------------------- login --------------------------------- *)
LoginBodies ==
    [username : Usernames, password : Passwords]
    \cup {[username |-> Missing, password |-> "pw1"],
          [username |-> "alice", password |-> Missing]}

LoginValid(data) == ~(data.username = Missing \/ data.password = Missing)

\* The signups that have returned 201, as <<username, password>>.
Created ==
    {<<signups[i].data.username, signups[i].data.password>> :
        i \in {j \in DOMAIN signups : signups[j].status = 201}}

\* Lines 68-76: the request arrives and is validated.  `after` records
\* which signups had already returned 201 when this login started.
LoginStart ==
    /\ Len(logins) < MaxLogin
    /\ \E data \in LoginBodies :
         logins' = Append(logins,
            [data |-> data,
             pc |-> IF LoginValid(data) THEN "find" ELSE "done",
             status |-> IF LoginValid(data) THEN NoStatus ELSE 400,
             identity |-> NoValue,
             after |-> Created])
    /\ UNCHANGED <<users, attendance, quizzes, timetable, tokens,
                   signups, marks, quizreqs, saves>>

\* Lines 79-87: the user lookup, the password check, the token.
LoginFind(i) ==
    /\ logins[i].pc = "find"
    /\ LET user == FindOne(users, {k \in DOMAIN users :
                                      users[k].username = logins[i].data.username})
           ok == user # <<>> /\ CheckPw(logins[i].data.password, user[1].password)
       IN  /\ logins' = [logins EXCEPT
                ![i].pc = "done",
                ![i].status = IF ok THEN 200 ELSE 401,
                ![i].identity = IF ok THEN <<logins[i].data.username>> ELSE NoValue]
           /\ tokens' = IF ok THEN tokens \cup {logins[i].data.username} ELSE tokens
    /\ UNCHANGED <<users, attendance, quizzes, timetable,
                   signups, marks, quizreqs, saves>>

(* --------------------------- mark_attendance --------------------------- *)
\* The class_number values tried: absent, 0 (present but falsy), 1..MaxClass.
ClassBodies == {NoValue} \cup {<<n>> : n \in 0..MaxClass}

\* Line 96: `not class_number`.
ClassMissing(class_number) == class_number = NoValue \/ class_number[1] = 0

\* Variant: the lookup by username alone, without the type.
StudentFilterAnyType(u, username) == u.username = username

\* Line 100: the filter {"username": username, "type": "Student"}.
StudentFilter(u, username) == u.username = username /\ u.type = "Student"

\* Variant: the handler without the already-marked check.
AlreadyMarkedNever(class_number, list) == FALSE

\* Line 109: `class_number in student_attendance["attendance"]`.
AlreadyMarked(class_number, list) == class_number \in Range(list)

\* Variant: an atomic push onto the list as stored at the time of the update.
NewListAtomic(fetched, stored, class_number) == Append(stored, class_number)

\* Variant: the update stores the new class alone.
NewListOnly(fetched, stored, class_number) == <<class_number>>

\* Lines 113-114: the list update_one stores is the list this request
\* fetched, with its class appended; `stored` is the list in the database
\* when the update runs.
NewList(fetched, stored, class_number) == Append(fetched, class_number)

\* collection.update_one({"username": username}, {"$set": {"attendance": list}}):
\* the first matching document gets the list; no document, no change.
UpdateOne(coll, username, list) ==
    LET hits == {i \in DOMAIN coll : coll[i].username = username}
    IN  IF hits = {} THEN coll
        ELSE [coll EXCEPT ![CHOOSE i \in hits : \A j \in hits : i <= j].attendance = list]

\* The student's marked-class list as get_attendance reads it (lines
\* 292-299): that of the first record, empty when there is none.
StoredList(coll, username) ==
    LET rec == FindOne(coll, {k \in DOMAIN coll : coll[k].username = username})
    IN  IF rec = <<>> THEN <<>> ELSE rec[1].attendance

\* Lines 89-102: jwt_required admits a request that carries a token issued
\* by login; the class number is validated and the student looked up (the
\* request's first database call, taken together with its arrival).
\* `alone` stays true while no other request of the same identity is in
\* progress together with this one; `before` is the student's list when the
\* request arrived, `after` the list when it returned.
MarkStart ==
    /\ Len(marks) < MaxMark
    /\ \E username \in tokens, class_number \in ClassBodies :
         LET student == FindOne(users, {k \in DOMAIN users :
                                         StudentFilter(users[k], username)})
             status == IF ClassMissing(class_number) THEN 400
                       ELSE IF student = <<>> THEN 404 ELSE NoStatus
         IN  marks' = Append(
                [i \in DOMAIN marks |->
                    IF Active(marks[i]) /\ marks[i].username = username
                    THEN [marks[i] EXCEPT !.alone = FALSE] ELSE marks[i]],
                [username |-> username,
                 class_number |-> class_number,
                 pc |-> IF status = NoStatus THEN "fetch" ELSE "done",
                 status |-> status,
                 fetched |-> <<>>,
                 alone |-> \A i \in DOMAIN marks :
                              ~(Active(marks[i]) /\ marks[i].username = username),
                 before |-> StoredList(attendance, username),
                 after |-> IF status = NoStatus THEN <<>>
                           ELSE StoredList(attendance, username)])
    /\ UNCHANGED <<users, attendance, quizzes, timetable, tokens,
                   signups, logins, quizreqs, saves>>

\* Lines 105-110: the attendance lookup and the already-marked check.
MarkFetch(i) ==
    /\ marks[i].pc = "fetch"
    /\ LET student_attendance ==
             FindOne(attendance, {k \in DOMAIN attendance :
                                    attendance[k].username = marks[i].username})
           c == marks[i].class_number[1]
       IN  marks' = [marks EXCEPT
               ![i].pc = IF student_attendance = <<>> THEN "insert"
                         ELSE IF AlreadyMarked(c, student_attendance[1].attendance)
                              THEN "done" ELSE "update",
               ![i].status = IF student_attendance # <<>>
                                /\ AlreadyMarked(c, student_attendance[1].attendance)
                             THEN 400 ELSE NoStatus,
               ![i].fetched = IF student_attendance = <<>> THEN <<>>
                              ELSE student_attendance[1].attendance,
               ![i].after = IF student_attendance # <<>>
                               /\ AlreadyMarked(c, student_attendance[1].attendance)
                            THEN StoredList(attendance, marks[i].username) ELSE <<>>]
    /\ UNCHANGED <<users, attendance, quizzes, timetable, tokens,
                   signups, logins, quizreqs, saves>>

\* Lines 113-114, 119: append to the fetched list and store it.
MarkUpdate(i) ==
    /\ marks[i].pc = "update"
    /\ attendance' = UpdateOne(attendance, marks[i].username,
                        NewList(marks[i].fetched,
                                StoredList(attendance, marks[i].username),
                                marks[i].class_number[1]))
    /\ marks' = [marks EXCEPT ![i].pc = "done", ![i].status = 200,
                              ![i].after = StoredList(attendance', marks[i].username)]
    /\ UNCHANGED <<users, quizzes, timetable, tokens,
                   signups, logins, quizreqs, saves>>

\* Lines 117, 119: no record was found, so a new one is inserted.
MarkInsert(i) ==
    /\ marks[i].pc = "insert"
    /\ attendance' = Append(attendance,
                        [username |-> marks[i].username,
                         attendance |-> <<marks[i].class_number[1]>>])
    /\ marks' = [marks EXCEPT ![i].pc = "done", ![i].status = 200,
                              ![i].after = StoredList(attendance', marks[i].username)]
    /\ UNCHANGED <<users, quizzes, timetable, tokens,
                   signups, logins, quizreqs, saves>>

(* ----------------------------- create_quiz ----------------------------- *)
\* JSON values of correctAnswer: integers and strings.
IntVal(n) == [type |-> "int", int |-> n, str |-> ""]

StrVal(t) == [type |-> "str", int |-> 0, str |-> t]

AnswerBodies ==
    {NoValue} \cup {<<IntVal(n)>> : n \in 0..MaxAnswer}
              \cup {<<StrVal(t)>> : t \in {"", "2", "5", "two"}}

OptionLabels == <<"a", "b", "c", "d", "e", "f">>

\* The options lists tried: the first n labels, n = 0..MaxOptions.
OptionBodies == {SubSeq(OptionLabels, 1, n) : n \in 0..MaxOptions}

QuizBodies ==
    [question : {Missing, "q1"}, options : OptionBodies, correctAnswer : AnswerBodies]

\* Python's `not v` for an optional JSON value: absent, 0 or "".
Falsy(v) ==
    \/ v = NoValue
    \/ v[1].type = "int" /\ v[1].int = 0
    \/ v[1].type = "str" /\ v[1].str = ""

\* int(v): an integer is itself, a string of digits its number; any other
\* string raises ValueError.
PyInt(v) ==
    IF v.type = "int" THEN [raises |-> "", int |-> v.int]
    ELSE IF v.str = "2" THEN [raises |-> "", int |-> 2]
    ELSE IF v.str = "5" THEN [raises |-> "", int |-> 5]
    ELSE [raises |-> "ValueError", int |-> 0]

\* Lines 158-177: validation, int(), the range check and options[k - 1],
\* which raises IndexError past the end of the list (Flask answers 500).
QuizOutcome(data) ==
    IF data.question = Missing \/ data.options = <<>> \/ Falsy(data.correctAnswer)
    THEN [status |-> 400, quiz |-> <<>>]
    ELSE LET correct_answer == PyInt(data.correctAnswer[1])
         IN  IF correct_answer.raises = "ValueError"
             THEN [status |-> 400, quiz |-> <<>>]
             ELSE IF ~(1 <= correct_answer.int /\ correct_answer.int <= 4)
             THEN [status |-> 400, quiz |-> <<>>]
             ELSE IF correct_answer.int - 1 >= Len(data.options)
             THEN [status |-> 500, quiz |-> <<>>]
             ELSE [status |-> NoStatus,
                   quiz |-> <<[question |-> data.question,
                               options |-> data.options,
                               correctAnswer |->
                                  data.options[(correct_answer.int - 1) + 1]]>>]

\* Lines 153-177: jwt_required admits a request that carries a token; the
\* body is validated and the quiz document built.
QuizStart ==
    /\ Len(quizreqs) < MaxQuiz
    /\ tokens # {}
    /\ \E data \in QuizBodies :
         LET out == QuizOutcome(data)
         IN  quizreqs' = Append(quizreqs,
                [data |-> data,
                 pc |-> IF out.status = NoStatus THEN "insert" ELSE "done",
                 status |-> out.status,
                 quiz |-> out.quiz])
    /\ UNCHANGED <<users, attendance, quizzes, timetable, tokens,
                   signups, logins, marks, saves>>

\* Lines 180-182: the insert.
QuizInsert(i) ==
    /\ quizreqs[i].pc = "insert"
    /\ quizzes' = Append(quizzes, quizreqs[i].quiz[1])
    /\ quizreqs' = [quizreqs EXCEPT ![i].pc = "done", ![i].status = 201]
    /\ UNCHANGED <<users, attendance, timetable, tokens,
                   signups, logins, marks, saves>>

(* ---------------------------- save_timetable --------------------------- *)
\* The payloads tried: none (or an empty object), and two timetables.
SaveBodies == {Missing, "timetable1", "timetable2"}

\* Lines 267-270: the request arrives and is validated.  `alone` stays
\* true while no other save is in progress together with this one; `after`
\* is the collection when the request returned.
SaveStart ==
    /\ Len(saves) < MaxSave
    /\ \E data \in SaveBodies :
         saves' = Append(
            [i \in DOMAIN saves |->
                IF Active(saves[i]) THEN [saves[i] EXCEPT !.alone = FALSE]
                ELSE saves[i]],
            [data |-> data,
             pc |-> IF data = Missing THEN "done" ELSE "find",
             status |-> IF data = Missing THEN 400 ELSE NoStatus,
             alone |-> \A i \in DOMAIN saves : ~Active(saves[i]),
             after |-> IF data = Missing THEN timetable ELSE <<>>])
    /\ UNCHANGED <<users, attendance, quizzes, timetable, tokens,
                   signups, logins, marks, quizreqs>>

\* Lines 273-275: is there a timetable document?
SaveFind(i) ==
    /\ saves[i].pc = "find"
    /\ LET existing_timetable == FindOne(timetable, DOMAIN timetable)
       IN  saves' = [saves EXCEPT
               ![i].pc = IF existing_timetable # <<>> THEN "replace" ELSE "insert"]
    /\ UNCHANGED <<users, attendance, quizzes, timetable, tokens,
                   signups, logins, marks, quizreqs>>

\* Lines 277-278: replace_one({}, data) replaces the first document.
SaveReplace(i) ==
    /\ saves[i].pc = "replace"
    /\ timetable' = IF timetable = <<>> THEN timetable
                    ELSE [timetable EXCEPT ![1] = saves[i].data]
    /\ saves' = [saves EXCEPT ![i].pc = "done", ![i].status = 200,
                              ![i].after = timetable']
    /\ UNCHANGED <<users, attendance, quizzes, tokens,
                   signups, logins, marks, quizreqs>>

\* Lines 281-282: insert_one(data).
SaveInsert(i) ==
    /\ saves[i].pc = "insert"
    /\ timetable' = Append(timetable, saves[i].data)
    /\ saves' = [saves EXCEPT ![i].pc = "done", ![i].status = 201,
                              ![i].after = timetable']
    /\ UNCHANGED <<users, attendance, quizzes, tokens,
                   signups, logins, marks, quizreqs>>

(* --------------------------- specifications ---------------------------- *)
Init ==
    /\ users = <<>>
    /\ attendance = <<>>
    /\ quizzes = <<>>
    /\ timetable = <<>>
    /\ tokens = {}
    /\ signups = <<>>
    /\ logins = <<>>
    /\ marks = <<>>
    /\ quizreqs = <<>>
    /\ saves = <<>>

Next ==
    \/ SignupStart
    \/ \E i \in DOMAIN signups : SignupFind(i)
    \/ \E i \in DOMAIN signups : SignupInsert(i)
    \/ LoginStart
    \/ \E i \in DOMAIN logins : LoginFind(i)

Spec == Init /\ [][Next]_vars

\* A database that earlier signups and logins have filled (signup of alice
\* and of bob, then a login of each): a Student and a Teacher, both holding
\* a token.
InitLoggedIn ==
    /\ users = <<UserData([username |-> "alice", password |-> "pw1",
                           name |-> "Name", type |-> "Student"], HashPw("pw1", 1)),
                 UserData([username |-> "bob", password |-> "pw2",
                           name |-> "Name", type |-> "Teacher"], HashPw("pw2", 2))>>
    /\ tokens = {"alice", "bob"}
    /\ attendance = <<>>
    /\ quizzes = <<>>
    /\ timetable = <<>>
    /\ signups = <<>>
    /\ logins = <<>>
    /\ marks = <<>>
    /\ quizreqs = <<>>
    /\ saves = <<>>

NextAttendance ==
    \/ MarkStart
    \/ \E i \in DOMAIN marks : MarkFetch(i)
    \/ \E i \in DOMAIN marks : MarkUpdate(i)
    \/ \E i \in DOMAIN marks : MarkInsert(i)

SpecAttendance == InitLoggedIn /\ [][NextAttendance]_vars

NextQuiz ==
    \/ QuizStart
    \/ \E i \in DOMAIN quizreqs : QuizInsert(i)

SpecQuiz == InitLoggedIn /\ [][NextQuiz]_vars

NextTimetable ==
    \/ SaveStart
    \/ \E i \in DOMAIN saves : SaveFind(i)
    \/ \E i \in DOMAIN saves : SaveReplace(i)
    \/ \E i \in DOMAIN saves : SaveInsert(i)

SpecTimetable == Init /\ [][NextTimetable]_vars

(* ------------------------------- claims -------------------------------- *)
NoRepeat(list) == \A i, j \in DOMAIN list : i # j => list[i] # list[j]

IsStudentUser(username) ==
    \E k \in DOMAIN users : users[k].username = username /\ users[k].type = "Student"

\* C1: the users collection holds at most one record per username, and a
\* signup for a username that is already stored returns 400 and inserts
\* nothing.
C1_UniqueUsername ==
    /\ \A i, j \in DOMAIN users : i # j => users[i].username # users[j].username
    /\ \A i \in DOMAIN signups :
          (signups[i].stored /\ SignupValid(signups[i].data))
             => /\ signups[i].pc # "insert"
                /\ signups[i].pc = "done" => signups[i].status = 400

\* C2: once signup(u, p) has returned 201, a later login with u and p
\* returns 200 with a token whose identity is u, and a later login with u
\* and another password returns 401.
C2_LoginAfterSignup ==
    \A i \in DOMAIN logins : \A up \in logins[i].after :
        (logins[i].pc = "done" /\ logins[i].data.username = up[1]
                               /\ logins[i].data.password # Missing)
           => IF logins[i].data.password = up[2]
              THEN logins[i].status = 200 /\ logins[i].identity = <<up[1]>>
              ELSE logins[i].status = 401

\* C3: no class_number occurs more than once in the attendance list of any
\* stored attendance record.
C3_NoRepeatedClass ==
    \A k \in DOMAIN attendance : NoRepeat(attendance[k].attendance)

\* C3 witness: two requests of one student for the same class ran together,
\* both returned 200, and the lists still hold no class twice.
C3_Witness ==
    /\ C3_NoRepeatedClass
    /\ \E i, j \in DOMAIN marks :
          /\ i < j
          /\ marks[i].username = marks[j].username
          /\ marks[i].class_number = marks[j].class_number
          /\ marks[i].status = 200 /\ marks[j].status = 200
          /\ marks[i].fetched # <<>> /\ marks[j].fetched # <<>>

\* C4: the attendance collection holds at most one record per username.
C4_OneRecordPerUser ==
    \A i, j \in DOMAIN attendance :
        i # j => attendance[i].username # attendance[j].username

\* Requests i and j of one student for the same class number (one the
\* handler takes as given: not 0), i returned before j arrived, no other
\* request of that student in between or together with either.
SequentialPair(i, j) ==
    /\ i < j
    /\ marks[i].username = marks[j].username
    /\ IsStudentUser(marks[i].username)
    /\ marks[i].class_number \notin {NoValue, <<0>>}
    /\ marks[i].class_number = marks[j].class_number
    /\ marks[i].alone /\ marks[j].alone
    /\ ~Active(marks[i]) /\ ~Active(marks[j])
    /\ \A k \in DOMAIN marks :
          (i < k /\ k < j) => marks[k].username # marks[i].username

OnceOnly(i, j) ==
    /\ marks[i].status = 200
    /\ marks[j].status = 400
    /\ Len(marks[j].after) = Len(marks[i].before) + 1

C6_StaleWrite ==
    [][\A i \in DOMAIN marks :
          (marks[i].pc = "update" /\ marks'[i].pc = "done")
             => StoredList(attendance', marks[i].username)
                   = Append(marks[i].fetched, marks[i].class_number[1])]_vars

\* C6 witness, the lost update: two requests of one student for different
\* classes both updated the student's one record and returned 200, and the
\* record holds only one of the two classes.
C6_LostUpdate ==
    \E i, j \in DOMAIN marks :
        /\ i # j
        /\ marks[i].username = marks[j].username
        /\ marks[i].class_number # marks[j].class_number
        /\ marks[i].status = 200 /\ marks[j].status = 200
        /\ marks[i].fetched # <<>> /\ marks[j].fetched # <<>>
        /\ \A k \in DOMAIN marks : ~Active(marks[k])
        /\ Cardinality({k \in DOMAIN attendance :
                           attendance[k].username = marks[i].username}) = 1
        /\ marks[i].class_number[1] \in
              Range(StoredList(attendance, marks[i].username))
        /\ marks[j].class_number[1] \notin
              Range(StoredList(attendance, marks[i].username))

\* C7: the timetable collection holds at most one document, and when two
\* saves run one after the other the single document afterwards carries
\* the second payload.
C7_SingleTimetable ==
    /\ Len(timetable) <= 1
    /\ \A i, j \in DOMAIN saves :
          (/\ j = i + 1
           /\ saves[i].alone /\ saves[j].alone
           /\ ~Active(saves[i]) /\ ~Active(saves[j])
           /\ saves[i].data # Missing /\ saves[j].data # Missing)
             => saves[j].after = <<saves[j].data>>

\* C8: a create_quiz request with a question, a non-empty options list and
\* a correctAnswer either stores the quiz with the k-th option as its
\* correct answer and returns 201 (k in 1..4), or returns 400 and stores
\* nothing.
C8_QuizOutcomes ==
    /\ Len(quizzes) = Cardinality({i \in DOMAIN quizreqs : quizreqs[i].status = 201})
    /\ \A i \in DOMAIN quizreqs :
          LET data == quizreqs[i].data
          IN  (/\ quizreqs[i].pc = "done"
               /\ data.question # Missing
               /\ data.options # <<>>
               /\ ~Falsy(data.correctAnswer))
                 => \/ quizreqs[i].status = 400
                    \/ /\ quizreqs[i].status = 201
                       /\ \E k \in 1..4 :
                             /\ PyInt(data.correctAnswer[1]) = [raises |-> "", int |-> k]
                             /\ k <= Len(data.options)
                             /\ [question |-> data.question,
                                 options |-> data.options,
                                 correctAnswer |-> data.options[k]] \in Range(quizzes)

AttendanceOfStudents ==
    \A k \in DOMAIN attendance : IsStudentUser(attendance[k].username)

\* C9 as stated: every attendance record belongs to a stored Student, and a
\* request whose identity is not a Student fails with 404 without reaching
\* the attendance collection.
C9_Original ==
    /\ AttendanceOfStudents
    /\ \A i \in DOMAIN marks :
          ~IsStudentUser(marks[i].username)
             => marks[i].pc = "done" /\ marks[i].status = 404

\* C9 amended: every attendance record belongs to a stored Student, and a
\* request whose identity is not a Student fails without reaching the
\* attendance collection: with 404 when it carries a class number, with 400
\* when the class number is absent or 0.
C9_StudentsOnly ==
    /\ AttendanceOfStudents
    /\ \A i \in DOMAIN marks :
          ~IsStudentUser(marks[i].username)
             => /\ marks[i].pc = "done"
                /\ marks[i].status =
                      IF marks[i].class_number = NoValue
                         \/ marks[i].class_number[1] = 0
                      THEN 400 ELSE 404

\* C9 witness: a Teacher's request with a class number was refused with 404
\* while a Student's record is stored.
C9_Witness ==
    /\ attendance # <<>>
    /\ AttendanceOfStudents
    /\ \E i \in DOMAIN marks :
          /\ ~IsStudentUser(marks[i].username)
          /\ marks[i].class_number \notin {NoValue, <<0>>}
          /\ marks[i].status = 404

\* C10: every stored user has type Teacher or Student, and a signup with
\* any other type creates no user.
C10_RoleIsTeacherOrStudent ==
    /\ \A k \in DOMAIN users : users[k].type \in {"Teacher", "Student"}
    /\ \A i \in DOMAIN signups :
          (signups[i].data.type \notin {Missing, "Teacher", "Student"})
             => signups[i].status # 201

====
